---- MODULE Spec2Model ----
(***************************************************************************)
(* Model of the yt-dlp command line downloader (src/main.py).              *)
(*                                                                         *)
(*   SpecOrch      the download orchestration of handle_download: the      *)
(*                 ThreadPoolExecutor, download_job's retry loop and the   *)
(*                 as_completed loop that collects the results.            *)
(*   FairSpecOrch  SpecOrch with the fairness the executor's threads give. *)
(*   SpecProgress  worker threads calling ProgressDisplay.update and       *)
(*                 ProgressDisplay.complete through download_job's         *)
(*                 progress hook.                                          *)
(*   SpecMenu      main(), configure_settings(), handle_download() and     *)
(*                 select_format(): the menu loops and the cursor counter. *)
(*   SpecRender    MenuScreen.render, reset and _measure_display_lines.    *)
(*   SpecLoad      RuntimeSettings.load over the states of settings.json.  *)
(*   SpecKeys      read_keypress over the bytes of the user's key gestures.*)
(*   SpecGui       VideoDownloaderGUI (src/video_downloader.py): the Tk    *)
(*                 main thread, the fetch threads and the download threads.*)
(*                                                                         *)
(* Each specification leaves the variables of the others unchanged.        *)
(***************************************************************************)
EXTENDS Integers, Sequences, FiniteSets, TLC

VARIABLES
    \* ---- orchestration (handle_download lines 364-370, download_job)
    numJobs,      \* K: length of the list futs
    maxWorkers,   \* settings.ParallelDownloads, the pool's max_workers
    tries,        \* settings.RetryAttempts, download_job's parameter tries
    opc,          \* main thread: "submit", "collect", "done"
    fut,          \* per job: "none", "queued", "running", "done"
    attempt,      \* per job: the loop variable attempt (0 before the loop)
    lastExc,      \* per job: last_exception
    result,       \* per job: the value download_job returned, once done
    xfer,         \* per job: outcome of every ydl.download call made so far
    collected,    \* futures as_completed has yielded
    outcomes,     \* one entry per iteration of the as_completed loop
    resultErrs,   \* result_errs
    completions,  \* per job: calls of progress.complete made for it
    mainWrite,    \* the main thread's terminal write after the submit
    \* ---- progress aggregator (ProgressDisplay)
    numThreads,   \* worker threads sharing one ProgressDisplay
    clock,        \* time.time(), in ticks of 250 ms
    lastUpdate,   \* self._last_update
    currentFile,  \* self._current_file
    lockHolder,   \* self._lock: 0 when free, else the thread holding it
    ppc,          \* per thread: position inside update / complete
    pnow,         \* per thread: the local variable now of update
    calls,        \* hook calls started so far
    pcall,        \* per thread: the number of the call it is in
    accepted,     \* update calls that wrote to the terminal
    lastWrites,   \* the two most recent terminal writes, oldest first
    \* ---- menus and cursor (main, configure_settings, handle_download,
    \*      select_format, push_hidden_cursor, pop_hidden_cursor)
    mpc,          \* position of the single menu thread
    ansi,         \* supports_ansi()
    depth,        \* _CURSOR_HIDE_DEPTH
    cursorSeq,    \* last cursor sequence written: "none", "hide", "show"
    managed,      \* per MenuScreen: _cursor_managed
    scopeOpen,    \* per MenuScreen: inside its with block
    mainSel,      \* selection of main()
    subSel,       \* selection of configure_settings / select_format
    nFormats,     \* len(formats) in handle_download
    mainNav,      \* Up and Down events main() has handled
    subNav,       \* Up and Down events the inner menu has handled
    lastKey,      \* last value read_keypress returned, and by which menu
    fmtResult,    \* what select_format returned to handle_download
    poolRuns,     \* thread pools this call of handle_download has created
    keyboard,     \* what supports_keyboard_navigation() returned to main()
    poolResult,   \* whether result_errs is empty when the pool has finished
    lastSave,     \* how the last settings.save() ended
    \* ---- renderer (MenuScreen.render, reset, _measure_display_lines)
    termWidth,    \* shutil.get_terminal_size().columns
    screens,      \* per MenuScreen: _display_lines, _initial, _supports_cursor
    frame,        \* the lines the last render printed
    out,          \* what the last render wrote before its lines
    \* ---- settings file (RuntimeSettings.load)
    lfile,        \* what settings.json holds when load is called
    lpc,          \* position inside load
    lfield,       \* index of the field the for loop of load is at
    linst,        \* the fields of instance
    \* ---- key reader (read_keypress)
    kbranch,      \* the branch taken: "msvcrt" or "termios"
    kpc,          \* position inside read_keypress
    kwire,        \* bytes of the current gesture still on their way
    kin,          \* bytes waiting in the console or tty input queue
    kbuf,         \* characters sys.stdin has read ahead of the caller
    kch,          \* the local variables ch / key
    kret,         \* the value the last call returned
    kgesture,     \* the gesture typed while this call was waiting
    ktyped,       \* gestures typed so far
    \* ---- GUI downloader (src/video_downloader.py, VideoDownloaderGUI)
    gcount,       \* per URL: the combined formats extract_info finds for it
    gformats,     \* self.formats
    glistbox,     \* the rows of self.format_listbox
    gbtn,         \* state of self.download_btn
    gfetch,       \* per fetch thread: its position and local variables
    gqueue,       \* callbacks given to root.after, not yet run
    gdl,          \* per download thread: its position and arguments
    gindexError   \* download_video raised IndexError

ovars == <<numJobs, maxWorkers, tries, opc, fut, attempt, lastExc, result,
           xfer, collected, outcomes, resultErrs, completions,
           mainWrite>>
pvars == <<numThreads, clock, lastUpdate, currentFile, lockHolder, ppc, pnow,
           calls, pcall, accepted, lastWrites>>
mvars == <<mpc, ansi, depth, cursorSeq, managed, scopeOpen,
           mainSel, subSel, nFormats, mainNav, subNav, lastKey,
           fmtResult, poolRuns, keyboard, poolResult, lastSave>>
rvars == <<termWidth, screens, frame, out>>
lvars == <<lfile, lpc, lfield, linst>>
kvars == <<kbranch, kpc, kwire, kin, kbuf, kch, kret, kgesture, ktyped>>
gvars == <<gcount, gformats, glistbox, gbtn, gfetch, gqueue, gdl,
           gindexError>>
xvars == <<lvars, kvars, gvars>>
vars == <<ovars, pvars, mvars, rvars, xvars>>

Max(a, b) == IF a >= b THEN a ELSE b
Min(a, b) == IF a <= b THEN a ELSE b

(***************************************************************************)
(* Bounds of the model.                                                    *)
(***************************************************************************)
\* Most futures in futs.  handle_download builds futs with one pool.submit;
\* the pool and the as_completed loop are run here for 1..NumJobs futures.
NumJobs == 2
\* Largest number typed at the "Parallel downloads" prompt.
MaxParallelInput == 2
\* Largest number typed at the "Retries" prompt.
MaxRetryInput == 2

(***************************************************************************)
(* Settings values (configure_settings).                                   *)
(***************************************************************************)
ParallelMin == 1
ParallelMax == 16
RetriesMin == 0
RetriesMax == 10

\* settings.ParallelDownloads=max(1,min(16,int(v)))
ClampParallel(v) == Max(ParallelMin, Min(ParallelMax, v))
\* settings.RetryAttempts=max(0,min(10,int(v)))
ClampRetries(v) == Max(RetriesMin, Min(RetriesMax, v))

(***************************************************************************)
(* Orchestration.                                                          *)
(***************************************************************************)
Jobs == 1..numJobs
\* Python's None.
NoneVal == [kind |-> "None", job |-> 0, att |-> 0]
\* The exception raised by attempt a of job j.
Exc(j, a) == [kind |-> "exception", job |-> j, att |-> a]
\* str(last_exception): the text of the exception's message, and the text
\* "None" (job 0, attempt 0) for None.
Str(e) == [e EXCEPT !.kind = "text"]

Running == {j \in Jobs : fut[j] = "running"}
Queued == {j \in Jobs : fut[j] = "queued"}

OrchInit ==
    /\ numJobs \in 1..NumJobs
    /\ maxWorkers \in {ClampParallel(v) : v \in 0..MaxParallelInput}
    /\ tries \in {ClampRetries(v) : v \in 0..MaxRetryInput}
    /\ opc = "submit"
    /\ fut = [j \in 1..NumJobs |-> "none"]
    /\ attempt = [j \in 1..NumJobs |-> 0]
    /\ lastExc = [j \in 1..NumJobs |-> NoneVal]
    /\ result = [j \in 1..NumJobs |-> <<FALSE, NoneVal>>]
    /\ xfer = [j \in 1..NumJobs |-> <<>>]
    /\ collected = {}
    /\ outcomes = <<>>
    /\ resultErrs = <<>>
    /\ completions = [j \in 1..NumJobs |-> 0]
    /\ mainWrite = "none"

\* The orchestration variables of a specification that does not run it.
OrchOff ==
    /\ numJobs = 1
    /\ maxWorkers = 1
    /\ tries = 1
    /\ opc = "off"
    /\ fut = [j \in 1..NumJobs |-> "none"]
    /\ attempt = [j \in 1..NumJobs |-> 0]
    /\ lastExc = [j \in 1..NumJobs |-> NoneVal]
    /\ result = [j \in 1..NumJobs |-> <<FALSE, NoneVal>>]
    /\ xfer = [j \in 1..NumJobs |-> <<>>]
    /\ collected = {}
    /\ outcomes = <<>>
    /\ resultErrs = <<>>
    /\ completions = [j \in 1..NumJobs |-> 0]
    /\ mainWrite = "none"

\* pool.submit(download_job, ...): the next future of the list is queued.
Submit(j) ==
    /\ opc = "submit"
    /\ j \in Jobs
    /\ fut[j] = "none"
    /\ \A i \in Jobs : i < j => fut[i] # "none"
    /\ fut' = [fut EXCEPT ![j] = "queued"]
    /\ UNCHANGED <<xvars, pvars, mvars, rvars, completions, mainWrite, numJobs, maxWorkers, tries, opc, attempt, lastExc, result,
                   xfer, collected, outcomes, resultErrs>>

\* The list futs is complete; the main thread enters as_completed(futs).
SubmitDone ==
    /\ opc = "submit"
    /\ \A j \in Jobs : fut[j] # "none"
    /\ opc' = "collect"
    /\ UNCHANGED <<xvars, pvars, mvars, rvars, completions, mainWrite, numJobs, maxWorkers, tries, fut, attempt, lastExc, result,
                   xfer, collected, outcomes, resultErrs>>

\* Variant of SlotFree: a pool that starts a thread for every work item.
MutSlotFree == TRUE
\* A pool thread may take a work item: the pool has at most max_workers.
SlotFree == Cardinality(Running) < maxWorkers

\* A pool thread takes the oldest queued work item and calls download_job.
Start(j) ==
    /\ j \in Queued
    /\ \A i \in Queued : j <= i
    /\ SlotFree
    /\ fut' = [fut EXCEPT ![j] = "running"]
    /\ UNCHANGED <<xvars, pvars, mvars, rvars, completions, mainWrite, numJobs, maxWorkers, tries, opc, attempt, lastExc, result,
                   xfer, collected, outcomes, resultErrs>>

\* Variant of MoreAttempts: one attempt too many, range(1,tries+2).
MutMoreAttempts(j) == attempt[j] < tries + 1
\* The loop of download_job goes on: for attempt in range(1,tries+1).
MoreAttempts(j) == attempt[j] < tries

\* One iteration of download_job's loop: ydl.download either returns, and
\* download_job returns (True, None), or raises, and last_exception is set.
\* A download that returns has called progress_hook with status 'finished',
\* which calls progress.complete(filename, True); one that raises has failed
\* before its file was finished.  Nothing else calls complete.
Attempt(j, ok) ==
    /\ j \in Running
    /\ MoreAttempts(j)
    /\ attempt' = [attempt EXCEPT ![j] = attempt[j] + 1]
    /\ xfer' = [xfer EXCEPT ![j] = Append(xfer[j], ok)]
    /\ IF ok
       THEN /\ result' = [result EXCEPT ![j] = <<TRUE, NoneVal>>]
            /\ fut' = [fut EXCEPT ![j] = "done"]
            /\ completions' = [completions EXCEPT ![j] = @ + 1]
            /\ UNCHANGED lastExc
       ELSE /\ lastExc' = [lastExc EXCEPT ![j] = Exc(j, attempt[j] + 1)]
            /\ UNCHANGED <<result, fut, completions>>
    /\ UNCHANGED <<xvars, pvars, mvars, rvars, mainWrite, numJobs, maxWorkers, tries, opc, collected, outcomes,
                   resultErrs>>

\* The loop is exhausted: return False,str(last_exception).
Exhausted(j) ==
    /\ j \in Running
    /\ ~MoreAttempts(j)
    /\ result' = [result EXCEPT ![j] = <<FALSE, Str(lastExc[j])>>]
    /\ fut' = [fut EXCEPT ![j] = "done"]
    /\ UNCHANGED <<xvars, pvars, mvars, rvars, completions, mainWrite, numJobs, maxWorkers, tries, opc, attempt, lastExc, xfer,
                   collected, outcomes, resultErrs>>

\* Variant of Yieldable: a loop that polls the finished futures and may
\* take one again.
MutYieldable == {j \in Jobs : fut[j] = "done"}
\* The futures as_completed may still yield.
Yieldable == {j \in Jobs : fut[j] = "done" /\ j \notin collected}

\* One iteration of "for fut in as_completed(futs)": fut.result() and the
\* append of its error to result_errs.
Collect(j) ==
    /\ opc = "collect"
    /\ j \in Yieldable
    /\ collected' = collected \cup {j}
    /\ outcomes' = Append(outcomes, <<j, result[j][1], result[j][2]>>)
    /\ resultErrs' = IF result[j][1] THEN resultErrs
                     ELSE Append(resultErrs, result[j][2])
    /\ UNCHANGED <<xvars, pvars, mvars, rvars, completions, mainWrite, numJobs, maxWorkers, tries, opc, fut, attempt, lastExc,
                   result, xfer>>

\* as_completed is exhausted and the with block of the pool exits.
CollectDone ==
    /\ opc = "collect"
    /\ collected = Jobs
    /\ opc' = "done"
    /\ UNCHANGED <<xvars, pvars, mvars, rvars, completions, mainWrite, numJobs, maxWorkers, tries, fut, attempt, lastExc, result,
                   xfer, collected, outcomes, resultErrs>>

\* The jobs between their submit and their terminal outcome.
ActiveJobs == {j \in Jobs : fut[j] \in {"queued", "running"}}

\* Variant of MainMayWrite: the report printed inside the with block.
MutMainMayWrite == opc \in {"collect", "done"}
\* Where handle_download writes next after "Starting download...": line 371,
\* the statement after the with block of the pool.  The as_completed loop
\* (lines 368-370) only appends to result_errs.
MainMayWrite == opc = "done"

\* Line 371 and what follows it: the first terminal write of the main thread
\* since the pool was created.
AfterPool ==
    /\ MainMayWrite
    /\ opc' = "reported"
    /\ mainWrite' = IF ActiveJobs # {} THEN "overlap" ELSE "quiet"
    /\ UNCHANGED <<xvars, pvars, mvars, rvars, completions, numJobs,
                   maxWorkers, tries, fut, attempt, lastExc, result, xfer,
                   collected, outcomes, resultErrs>>

OrchNext ==
    \/ \E j \in 1..NumJobs : Submit(j)
    \/ SubmitDone
    \/ \E j \in 1..NumJobs : Start(j)
    \/ \E j \in 1..NumJobs : \E ok \in BOOLEAN : Attempt(j, ok)
    \/ \E j \in 1..NumJobs : Exhausted(j)
    \/ \E j \in 1..NumJobs : Collect(j)
    \/ CollectDone
    \/ AfterPool

(***************************************************************************)
(* Progress aggregator: ProgressDisplay shared by the pool's threads.      *)
(***************************************************************************)
\* Most threads inside the progress hook at once.
MaxThreads == 2
\* Most hook calls the threads make in a run.
MaxCalls == 2
\* Ticks of 250 ms the clock advances in a run.
MaxTicks == 2
\* time.time() when the run starts, in ticks; _last_update starts at 0.0.
StartClock == 2
\* now-self._last_update<0.5: half a second is two ticks.
RateLimitTicks == 2

Threads == 1..numThreads
\* Path(d.get('filename','video')).name: each job writes its own file.
FileOf(w) == w

ProgInit ==
    /\ numThreads \in 1..MaxThreads
    /\ clock = StartClock
    /\ lastUpdate = 0
    /\ currentFile = 0
    /\ lockHolder = 0
    /\ ppc = [w \in 1..MaxThreads |-> "idle"]
    /\ pnow = [w \in 1..MaxThreads |-> 0]
    /\ calls = 0
    /\ pcall = [w \in 1..MaxThreads |-> 0]
    /\ accepted = {}
    /\ lastWrites = <<>>

ProgOff ==
    /\ numThreads = 1
    /\ clock = 0
    /\ lastUpdate = 0
    /\ currentFile = 0
    /\ lockHolder = 0
    /\ ppc = [w \in 1..MaxThreads |-> "off"]
    /\ pnow = [w \in 1..MaxThreads |-> 0]
    /\ calls = 0
    /\ pcall = [w \in 1..MaxThreads |-> 0]
    /\ accepted = {}
    /\ lastWrites = <<>>

\* The terminal after one more print: the model keeps the last two writes.
Written(w, kind) ==
    LET e == [by |-> w, kind |-> kind, call |-> pcall[w]]
    IN IF Len(lastWrites) = 2 THEN <<lastWrites[2], e>>
       ELSE Append(lastWrites, e)

\* Time passes.
Tick ==
    /\ clock < StartClock + MaxTicks
    /\ clock' = clock + 1
    /\ UNCHANGED <<xvars, ovars, mvars, rvars, numThreads, lastUpdate, currentFile,
                   lockHolder, ppc, pnow, calls, pcall, accepted, lastWrites>>

\* progress_hook with status 'downloading' calls progress.update, whose
\* first statement is now = time.time().
UpdateCall(w) ==
    /\ w \in Threads
    /\ ppc[w] = "idle"
    /\ calls < MaxCalls
    /\ calls' = calls + 1
    /\ pcall' = [pcall EXCEPT ![w] = calls + 1]
    /\ pnow' = [pnow EXCEPT ![w] = clock]
    /\ ppc' = [ppc EXCEPT ![w] = "u_check"]
    /\ UNCHANGED <<xvars, ovars, mvars, rvars, numThreads, clock, lastUpdate, currentFile,
                   lockHolder, accepted, lastWrites>>

\* if now-self._last_update<0.5: return
TooSoon(w) == pnow[w] - lastUpdate < RateLimitTicks

UpdateCheck(w) ==
    /\ w \in Threads
    /\ ppc[w] = "u_check"
    /\ IF TooSoon(w)
       THEN /\ ppc' = [ppc EXCEPT ![w] = "idle"]
            /\ pnow' = [pnow EXCEPT ![w] = 0]
       ELSE /\ ppc' = [ppc EXCEPT ![w] = "u_set"]
            /\ UNCHANGED pnow
    /\ UNCHANGED <<xvars, ovars, mvars, rvars, numThreads, clock, lastUpdate, currentFile,
                   lockHolder, calls, pcall, accepted, lastWrites>>

\* self._last_update = now
UpdateSet(w) ==
    /\ w \in Threads
    /\ ppc[w] = "u_set"
    /\ lastUpdate' = pnow[w]
    /\ ppc' = [ppc EXCEPT ![w] = "u_lock"]
    /\ UNCHANGED <<xvars, ovars, mvars, rvars, numThreads, clock, currentFile, lockHolder,
                   pnow, calls, pcall, accepted, lastWrites>>

\* Variant of LockFree: the prints are not guarded by the lock.
MutLockFree == TRUE
\* with self._lock: the lock can be taken.
LockFree == lockHolder = 0

\* update enters its with block.
UpdateLock(w) ==
    /\ w \in Threads
    /\ ppc[w] = "u_lock"
    /\ LockFree
    /\ lockHolder' = w
    /\ ppc' = [ppc EXCEPT ![w] = "u_hdr"]
    /\ UNCHANGED <<xvars, ovars, mvars, rvars, numThreads, clock, lastUpdate, currentFile,
                   pnow, calls, pcall, accepted, lastWrites>>

\* if filename != self._current_file: set it and print the header line.
UpdateHeader(w) ==
    /\ w \in Threads
    /\ ppc[w] = "u_hdr"
    /\ IF FileOf(w) # currentFile
       THEN /\ currentFile' = FileOf(w)
            /\ lastWrites' = Written(w, "header")
       ELSE UNCHANGED <<currentFile, lastWrites>>
    /\ ppc' = [ppc EXCEPT ![w] = "u_prog"]
    /\ UNCHANGED <<xvars, ovars, mvars, rvars, numThreads, clock, lastUpdate, lockHolder,
                   pnow, calls, pcall, accepted>>

\* print the progress line; the with block exits and releases the lock.
UpdateProgress(w) ==
    /\ w \in Threads
    /\ ppc[w] = "u_prog"
    /\ lastWrites' = Written(w, "progress")
    /\ accepted' = accepted \cup {<<w, pcall[w], pnow[w]>>}
    /\ lockHolder' = 0
    /\ ppc' = [ppc EXCEPT ![w] = "idle"]
    /\ pnow' = [pnow EXCEPT ![w] = 0]
    /\ UNCHANGED <<xvars, ovars, mvars, rvars, numThreads, clock, lastUpdate, currentFile,
                   calls, pcall>>

\* progress_hook with status 'finished' calls progress.complete, which
\* enters its with block.
CompleteCall(w) ==
    /\ w \in Threads
    /\ ppc[w] = "idle"
    /\ calls < MaxCalls
    /\ LockFree
    /\ calls' = calls + 1
    /\ pcall' = [pcall EXCEPT ![w] = calls + 1]
    /\ lockHolder' = w
    /\ ppc' = [ppc EXCEPT ![w] = "c_write"]
    /\ UNCHANGED <<xvars, ovars, mvars, rvars, numThreads, clock, lastUpdate, currentFile,
                   pnow, accepted, lastWrites>>

\* complete prints its line; the with block exits and releases the lock.
CompleteWrite(w) ==
    /\ w \in Threads
    /\ ppc[w] = "c_write"
    /\ lastWrites' = Written(w, "complete")
    /\ lockHolder' = 0
    /\ ppc' = [ppc EXCEPT ![w] = "idle"]
    /\ UNCHANGED <<xvars, ovars, mvars, rvars, numThreads, clock, lastUpdate, currentFile,
                   pnow, calls, pcall, accepted>>

ProgNext ==
    \/ Tick
    \/ \E w \in 1..MaxThreads : UpdateCall(w)
    \/ \E w \in 1..MaxThreads : UpdateCheck(w)
    \/ \E w \in 1..MaxThreads : UpdateSet(w)
    \/ \E w \in 1..MaxThreads : UpdateLock(w)
    \/ \E w \in 1..MaxThreads : UpdateHeader(w)
    \/ \E w \in 1..MaxThreads : UpdateProgress(w)
    \/ \E w \in 1..MaxThreads : CompleteCall(w)
    \/ \E w \in 1..MaxThreads : CompleteWrite(w)

(***************************************************************************)
(* Cursor counter and MenuScreen.                                          *)
(***************************************************************************)
Screens == {"main", "settings", "format"}
Cur == [depth |-> depth, seq |-> cursorSeq]

\* hide_cursor / show_cursor write their sequence when supports_ansi().
HideCursor(c) == IF ansi THEN [c EXCEPT !.seq = "hide"] ELSE c
ShowCursor(c) == IF ansi THEN [c EXCEPT !.seq = "show"] ELSE c

PushHidden(c) ==
    LET h == IF c.depth = 0 THEN HideCursor(c) ELSE c
    IN [h EXCEPT !.depth = c.depth + 1]

\* Variant of PopHidden: the plain pop decrements without testing the depth.
MutPopHidden(c, force) ==
    IF force THEN ShowCursor([c EXCEPT !.depth = 0])
    ELSE LET d == [c EXCEPT !.depth = c.depth - 1]
         IN IF d.depth = 0 THEN ShowCursor(d) ELSE d
\* pop_hidden_cursor(force)
PopHidden(c, force) ==
    IF force THEN ShowCursor([c EXCEPT !.depth = 0])
    ELSE IF c.depth > 0
         THEN LET d == [c EXCEPT !.depth = c.depth - 1]
              IN IF d.depth = 0 THEN ShowCursor(d) ELSE d
         ELSE c

IsCursorHidden(c) == c.depth > 0

\* Variant of EnsureCursorHidden: without the branch that hides the cursor
\* again after a forced pop.
MutEnsureCursorHidden(c, m) == IF ~m THEN PushHidden(c) ELSE c
\* MenuScreen._ensure_cursor_hidden on a screen whose _cursor_managed is m:
\* the cursor state afterwards (_cursor_managed is True afterwards).
EnsureCursorHidden(c, m) ==
    IF ~m THEN PushHidden(c)
    ELSE IF ~IsCursorHidden(c) THEN PushHidden(c)
    ELSE c

\* MenuScreen.close on a screen whose _cursor_managed is m.
Close(c, m) == IF m THEN PopHidden(c, FALSE) ELSE c

\* An exception leaves every open with block, innermost first: __exit__
\* closes the settings screen, if open, and then the main screen.
Unwind(c) ==
    LET inner == IF scopeOpen["settings"] THEN Close(c, managed["settings"])
                 ELSE c
    IN Close(inner, managed["main"])

SetCursor(c) == depth' = c.depth /\ cursorSeq' = c.seq

(***************************************************************************)
(* Renderer: style, strip_ansi and MenuScreen's render, reset and          *)
(* _measure_display_lines.  A line is a sequence of characters.            *)
(***************************************************************************)
\* Most lines in a frame given to render.
MaxLines == 2
\* Most visible characters in a line.
MaxText == 2
\* Most columns of the terminal.
MaxWidth == 2
\* The columns of the fallback terminal size, (80,24).
FallbackColumns == 80

\* "\x1b"
Esc == "ESC"
\* The classes [0-9;] and [A-Za-z] of the pattern of strip_ansi, over the
\* characters that occur in the lines of the model.
ParamChars == {"0", "1", "2", "3", "5", "8", ";"}
Letters == {"a", "m"}
\* Palette.ACCENT and Palette.RESET.
PaletteAccent == <<Esc, "[", "3", "8", ";", "5", ";", "2", "1", "5", "m">>
PaletteReset == <<Esc, "[", "0", "m">>

\* style(text, color): f"{color}{text}{Palette.RESET}" if supports_ansi().
Style(text, color) == IF ansi THEN color \o text \o PaletteReset ELSE text

\* Where a match of \x1b\[[0-9;]*[A-Za-z] that starts at s[i] ends, and 0
\* when none starts there.
RECURSIVE ParamsEnd(_, _)
ParamsEnd(s, j) ==
    IF j <= Len(s) /\ s[j] \in ParamChars THEN ParamsEnd(s, j + 1) ELSE j
MatchEnd(s, i) ==
    IF s[i] = Esc /\ i + 1 <= Len(s) /\ s[i + 1] = "["
    THEN LET j == ParamsEnd(s, i + 2)
         IN IF j <= Len(s) /\ s[j] \in Letters THEN j ELSE 0
    ELSE 0

\* The first index from i on at which s holds the character that starts a
\* match, and Len(s) + 1 when there is none.
NextEsc(s, i) ==
    LET at == {k \in i..Len(s) : s[k] = Esc}
    IN IF at = {} THEN Len(s) + 1
       ELSE CHOOSE m \in at : \A k \in at : m <= k

\* re.sub(pattern, '', text): the matches are removed from left to right,
\* and the text between them is kept.
RECURSIVE StripFrom(_, _)
StripFrom(s, i) ==
    LET m == NextEsc(s, i)
    IN IF m > Len(s) THEN SubSeq(s, i, Len(s))
       ELSE LET e == MatchEnd(s, m)
            IN SubSeq(s, i, m - 1) \o
                  (IF e > 0 THEN StripFrom(s, e + 1)
                   ELSE <<s[m]>> \o StripFrom(s, m + 1))
StripAnsi(text) == StripFrom(text, 1)

\* Variant of RowsOfLine: the quotient rounded down, plus one.
MutRowsOfLine(plain, width) == Len(plain) \div width + 1
\* max(1, (len(plain) + width - 1) // width) if plain else 1
RowsOfLine(plain, width) ==
    IF plain # <<>> THEN Max(1, (Len(plain) + width - 1) \div width) ELSE 1

\* The loop of _measure_display_lines from entry i on.
RECURSIVE TotalFrom(_, _, _)
TotalFrom(lines, width, i) ==
    IF i > Len(lines) THEN 0
    ELSE RowsOfLine(StripAnsi(lines[i]), width) + TotalFrom(lines, width, i + 1)

\* MenuScreen._measure_display_lines(lines) on a terminal of the given
\* number of columns.
MeasureDisplayLines(lines, columns) == TotalFrom(lines, Max(1, columns), 1)

\* A frame as its caller builds it: the visible length of the text of each
\* line; the caller styles each text with style().
Text(n) == [i \in 1..n |-> "a"]
LineOf(f, i) == Style(Text(f[i]), PaletteAccent)
Lines(f) == [i \in 1..Len(f) |-> LineOf(f, i)]
Frames == UNION {[1..n -> 0..MaxText] : n \in 0..MaxLines}
\* Nothing rendered yet.
NoFrame == <<>>

\* MenuScreen.__init__
NewScreen(a) == [displayLines |-> 0, initial |-> TRUE, supportsCursor |-> a]
\* Variant of Reset: a reset that does nothing.
MutReset(s) == s
\* MenuScreen.reset
Reset(s) == [s EXCEPT !.displayLines = 0, !.initial = TRUE]

NoOut == [mode |-> "none", rows |-> 0]
\* clear_console()
ClearOut == [mode |-> "clear", rows |-> 0]
\* Variant of RenderOut: the relative sequence whatever the recorded count.
MutRenderOut(s) ==
    IF s.initial THEN ClearOut
    ELSE IF s.supportsCursor THEN [mode |-> "up", rows |-> s.displayLines]
    ELSE ClearOut
\* What render writes before the lines: the full-screen clear, or the
\* sequence that moves the cursor up _display_lines rows and erases below.
RenderOut(s) ==
    IF s.initial THEN ClearOut
    ELSE IF s.supportsCursor /\ s.displayLines # 0
         THEN [mode |-> "up", rows |-> s.displayLines]
    ELSE ClearOut
\* The screen after render has written a frame of shown rows.
Rendered(s, shown) == [s EXCEPT !.initial = FALSE, !.displayLines = shown]

\* screen.render(Lines(f)) on screen m.
Render(m, f) ==
    /\ SetCursor(EnsureCursorHidden(Cur, managed[m]))
    /\ managed' = [managed EXCEPT ![m] = TRUE]
    /\ out' = RenderOut(screens[m])
    /\ screens' = [screens EXCEPT ![m] =
                      Rendered(screens[m], MeasureDisplayLines(Lines(f), termWidth))]
    /\ frame' = f

\* The uncaught exception ends the process; __exit__ closes, and so
\* resets, every open screen on the way.
Crash(c) ==
    /\ SetCursor(Unwind(c))
    /\ managed' = [s \in Screens |-> FALSE]
    /\ scopeOpen' = [s \in Screens |-> FALSE]
    /\ screens' = [s \in Screens |->
                      IF scopeOpen[s] THEN Reset(screens[s]) ELSE screens[s]]
    /\ mpc' = "crashed"

\* The renderer variables of a specification that renders nothing.
RenderOff ==
    /\ termWidth = FallbackColumns
    /\ screens = [s \in Screens |-> NewScreen(FALSE)]
    /\ frame = NoFrame
    /\ out = NoOut

(***************************************************************************)
(* One MenuScreen, that of main(), given any frames on a terminal whose    *)
(* width changes.                                                          *)
(***************************************************************************)
RenderInit ==
    /\ mpc = "off"
    /\ ansi \in BOOLEAN
    /\ depth = 0
    /\ cursorSeq = "none"
    /\ managed = [s \in Screens |-> FALSE]
    /\ scopeOpen = [s \in Screens |-> FALSE]
    /\ mainSel = 0
    /\ subSel = 0
    /\ nFormats = 0
    /\ mainNav = <<0, 0>>
    /\ subNav = <<0, 0>>
    /\ lastKey = <<"none", "">>
    /\ fmtResult = "none"
    /\ poolRuns = 0
    /\ keyboard = "unknown"
    /\ poolResult = "none"
    /\ lastSave = "none"
    /\ termWidth \in 1..MaxWidth
    /\ screens = [s \in Screens |-> NewScreen(ansi)]
    /\ frame = NoFrame
    /\ out = NoOut

\* screen.render(lines)
RenderCall(f) ==
    /\ f \in Frames
    /\ Render("main", f)
    /\ UNCHANGED <<xvars, ovars, pvars, mpc, ansi, scopeOpen, mainSel, subSel,
                   nFormats, mainNav, subNav, lastKey, fmtResult, poolRuns,
                   keyboard, poolResult, lastSave, termWidth>>

\* screen.reset()
ResetCall ==
    /\ screens' = [screens EXCEPT !["main"] = Reset(screens["main"])]
    /\ UNCHANGED <<xvars, ovars, pvars, mvars, termWidth, frame, out>>

\* The user resizes the terminal window.
Resize(w) ==
    /\ w \in 1..MaxWidth
    /\ w # termWidth
    /\ termWidth' = w
    /\ UNCHANGED <<xvars, ovars, pvars, mvars, screens, frame, out>>

RenderNext ==
    \/ \E f \in Frames : RenderCall(f)
    \/ ResetCall
    \/ \E w \in 1..MaxWidth : Resize(w)

(***************************************************************************)
(* Menu loops.                                                             *)
(***************************************************************************)
\* Up and Down events one menu loop handles in a run.
MaxNav == 3
\* Most combined formats fetch_formats returns.
MaxFormats == 3

\* What read_keypress returns; "" also stands for any other character.
Keys == {"UP", "DOWN", "ENTER", "ESC", "SPACE", ""}
NavKeys == {"UP", "DOWN"}
\* The key main() and configure_settings() leave their loop body on.
MenuEndKeys == {"ENTER"}

\* Python's %: the result has the sign of the divisor.
PyMod(a, n) == a - n * (a \div n)

\* Variant of SelUp: Up stops at the first option.
MutSelUp(sel, n) == Max(sel - 1, 0)
\* selection = (selection-1)%len(...)
SelUp(sel, n) == PyMod(sel - 1, n)
\* Variant of SelDown: Down without the modulo.
MutSelDown(sel, n) == sel + 1
\* selection = (selection+1)%len(...)
SelDown(sel, n) == PyMod(sel + 1, n)

Moved(sel, n, k) == IF k = "UP" THEN SelUp(sel, n) ELSE SelDown(sel, n)
Counted(nav, k) ==
    IF k = "UP" THEN <<nav[1] + 1, nav[2]>> ELSE <<nav[1], nav[2] + 1>>

\* build_options of main() and of configure_settings(): the actions.
MainOptions == <<"download", "settings", "exit">>
SettingsOptions ==
    <<"output", "overwrite", "parallel", "retries", "chunk", "status", "back">>

\* The visible lengths of the lines main(), configure_settings() and
\* select_format() give to render, with the settings record of the class
\* except that ShowStatusPanel is off, so that status_panel() is [].
\* "Use (up)/(down) to navigate, Enter to select."
HintLength == 37
\* "Use (up)/(down) to navigate, Enter to select, ESC to cancel."
FormatHintLength == 52
\* The title, "", "Menu", the three options, "" and the hint.
MainFrame == <<23, 0, 4, 16, 10, 6, 0, HintLength>>
\* "Settings", the seven options with their values, "" and the hint.
SettingsFrame == <<8, 25, 15, 15, 11, 15, 18, 18, 0, HintLength>>
\* "Select Format", one option of the form "  720p mp4 | Unknown size |
\* 30 fps" for each format, "" and the hint.
FormatFrame(n) == <<13>> \o [i \in 1..n |-> 34] \o <<0, FormatHintLength>>

\* The situations supports_keyboard_navigation() tells apart: msvcrt can be
\* imported; tty and termios can, and stdin is a terminal; they can, and
\* stdin is not a terminal; none of them can.
Platforms == {"msvcrt", "tty", "notty", "none"}
SupportsKeyboardNavigation(p) ==
    IF p = "msvcrt" THEN TRUE
    ELSE IF p \in {"tty", "notty"} THEN p = "tty"
    ELSE FALSE

\* Variant of EntersMenu: main() without "if not
\* supports_keyboard_navigation(): ...; return".
MutEntersMenu(probe) == TRUE
\* main() goes on to its menu loop.
EntersMenu(probe) == probe

MenuInit ==
    /\ mpc = "start"
    /\ ansi \in BOOLEAN
    /\ depth = 0
    /\ cursorSeq = "none"
    /\ managed = [s \in Screens |-> FALSE]
    /\ scopeOpen = [s \in Screens |-> FALSE]
    /\ mainSel = 0
    /\ subSel = 0
    /\ nFormats = 0
    /\ mainNav = <<0, 0>>
    /\ subNav = <<0, 0>>
    /\ lastKey = <<"none", "">>
    /\ fmtResult = "none"
    /\ poolRuns = 0
    /\ keyboard = "unknown"
    /\ poolResult = "none"
    /\ lastSave = "none"

MenuOff ==
    /\ mpc = "off"
    /\ ansi = FALSE
    /\ depth = 0
    /\ cursorSeq = "none"
    /\ managed = [s \in Screens |-> FALSE]
    /\ scopeOpen = [s \in Screens |-> FALSE]
    /\ mainSel = 0
    /\ subSel = 0
    /\ nFormats = 0
    /\ mainNav = <<0, 0>>
    /\ subNav = <<0, 0>>
    /\ lastKey = <<"none", "">>
    /\ fmtResult = "none"
    /\ poolRuns = 0
    /\ keyboard = "unknown"
    /\ poolResult = "none"
    /\ lastSave = "none"

\* main() up to its loop.  RuntimeSettings.load() returns or raises; then,
\* without keyboard navigation, main() prints an error and returns;
\* otherwise it enters the with block of a new MenuScreen.
MainStart(loaded, p) ==
    /\ mpc = "start"
    /\ p \in Platforms
    /\ IF ~loaded
       THEN /\ mpc' = "crashed"
            /\ UNCHANGED <<depth, cursorSeq, managed, scopeOpen, screens,
                           keyboard>>
       ELSE /\ keyboard' = IF SupportsKeyboardNavigation(p) THEN "yes" ELSE "no"
            /\ IF EntersMenu(SupportsKeyboardNavigation(p))
               THEN /\ SetCursor(EnsureCursorHidden(Cur, managed["main"]))
                    /\ managed' = [managed EXCEPT !["main"] = TRUE]
                    /\ scopeOpen' = [scopeOpen EXCEPT !["main"] = TRUE]
                    /\ screens' = [screens EXCEPT !["main"] = NewScreen(ansi)]
                    /\ mpc' = "main_render"
               ELSE /\ mpc' = "ended"
                    /\ UNCHANGED <<depth, cursorSeq, managed, scopeOpen,
                                   screens>>
    /\ UNCHANGED <<xvars, ovars, pvars, ansi, mainSel, subSel, nFormats, mainNav,
                   subNav, lastKey, fmtResult, poolRuns, poolResult, lastSave,
                   termWidth, frame, out>>

\* main(): build the options, clamp the selection, render, read a key.
MainRender ==
    /\ mpc = "main_render"
    /\ mainSel' = Min(mainSel, Len(MainOptions) - 1)
    /\ Render("main", MainFrame)
    /\ mpc' = "main_key"
    /\ UNCHANGED <<xvars, ovars, pvars, ansi, scopeOpen, subSel, nFormats, mainNav,
                   subNav, lastKey, fmtResult, poolRuns, keyboard, poolResult,
                   lastSave, termWidth>>

MainNavKey(k) ==
    /\ mpc = "main_key"
    /\ k \in NavKeys
    /\ mainNav[1] + mainNav[2] < MaxNav
    /\ lastKey' = <<"main", k>>
    /\ mainSel' = Moved(mainSel, Len(MainOptions), k)
    /\ mainNav' = Counted(mainNav, k)
    /\ mpc' = "main_render"
    /\ UNCHANGED <<xvars, ovars, pvars, rvars, ansi, depth, cursorSeq, managed,
                   scopeOpen, subSel, nFormats, subNav, fmtResult, poolRuns,
                   keyboard, poolResult, lastSave>>

\* A key main() has no branch for: the loop goes round.
MainOtherKey(k) ==
    /\ mpc = "main_key"
    /\ k \notin NavKeys \cup MenuEndKeys
    /\ lastKey' = <<"main", k>>
    /\ mpc' = "main_render"
    /\ UNCHANGED <<xvars, ovars, pvars, rvars, ansi, depth, cursorSeq, managed,
                   scopeOpen, mainSel, subSel, nFormats, mainNav, subNav,
                   fmtResult, poolRuns, keyboard, poolResult, lastSave>>

\* ENTER on "Download video": screen.reset(), and handle_download up to
\* the URL prompt.
MainEnterDownload ==
    /\ mpc = "main_key"
    /\ MainOptions[mainSel + 1] = "download"
    /\ lastKey' = <<"main", "ENTER">>
    /\ screens' = [screens EXCEPT !["main"] = Reset(screens["main"])]
    /\ SetCursor(PopHidden(Cur, TRUE))
    /\ fmtResult' = "none"
    /\ poolRuns' = 0
    /\ poolResult' = "none"
    /\ mpc' = "hd_url"
    /\ UNCHANGED <<xvars, ovars, pvars, ansi, managed, scopeOpen, mainSel, subSel,
                   nFormats, mainNav, subNav, keyboard, lastSave, termWidth,
                   frame, out>>

\* ENTER on "Settings": screen.reset(), and configure_settings up to its
\* loop, inside the with block of a new MenuScreen.
MainEnterSettings ==
    /\ mpc = "main_key"
    /\ MainOptions[mainSel + 1] = "settings"
    /\ lastKey' = <<"main", "ENTER">>
    /\ subSel' = 0
    /\ subNav' = <<0, 0>>
    /\ SetCursor(EnsureCursorHidden(Cur, managed["settings"]))
    /\ managed' = [managed EXCEPT !["settings"] = TRUE]
    /\ scopeOpen' = [scopeOpen EXCEPT !["settings"] = TRUE]
    /\ screens' = [screens EXCEPT !["main"] = Reset(screens["main"]),
                                  !["settings"] = NewScreen(ansi)]
    /\ mpc' = "set_render"
    /\ UNCHANGED <<xvars, ovars, pvars, ansi, mainSel, nFormats, mainNav, fmtResult,
                   poolRuns, keyboard, poolResult, lastSave, termWidth, frame,
                   out>>

\* ENTER on "Exit": screen.reset(); print(success_text("Goodbye!")) names a
\* function the module does not define, and the NameError leaves the with
\* block.
MainEnterExit ==
    /\ mpc = "main_key"
    /\ MainOptions[mainSel + 1] = "exit"
    /\ lastKey' = <<"main", "ENTER">>
    /\ Crash(Cur)
    /\ UNCHANGED <<xvars, ovars, pvars, ansi, mainSel, subSel, nFormats, mainNav,
                   subNav, fmtResult, poolRuns, keyboard, poolResult, lastSave,
                   termWidth, frame, out>>

(***************************************************************************)
(* handle_download and select_format.                                      *)
(***************************************************************************)
\* "Press Enter to continue" was answered and handle_download returned:
\* main() resets its screen and goes round its loop.
HdReturn ==
    /\ mpc = "hd_pause"
    /\ screens' = [screens EXCEPT !["main"] = Reset(screens["main"])]
    /\ mpc' = "main_render"
    /\ UNCHANGED <<xvars, ovars, pvars, ansi, depth, cursorSeq, managed, scopeOpen,
                   mainSel, subSel, nFormats, mainNav, subNav, lastKey,
                   fmtResult, poolRuns, keyboard, poolResult, lastSave,
                   termWidth, frame, out>>

\* The URL prompt: an empty URL ends in the pause, another starts the fetch.
HdUrl(given) ==
    /\ mpc = "hd_url"
    /\ mpc' = IF given THEN "hd_fetch" ELSE "hd_pause"
    /\ UNCHANGED <<xvars, ovars, pvars, rvars, ansi, depth, cursorSeq, managed,
                   scopeOpen, mainSel, subSel, nFormats, mainNav, subNav,
                   lastKey, fmtResult, poolRuns, keyboard, poolResult,
                   lastSave>>

\* fetch_formats failed, or found no combined format: report and pause.
HdFetchNothing ==
    /\ mpc = "hd_fetch"
    /\ mpc' = "hd_pause"
    /\ UNCHANGED <<xvars, ovars, pvars, rvars, ansi, depth, cursorSeq, managed,
                   scopeOpen, mainSel, subSel, nFormats, mainNav, subNav,
                   lastKey, fmtResult, poolRuns, keyboard, poolResult,
                   lastSave>>

\* fetch_formats returned n formats: sort them and call select_format,
\* which enters the with block of a new MenuScreen with selection 0.
HdFetchFormats(n) ==
    /\ mpc = "hd_fetch"
    /\ n \in 1..MaxFormats
    /\ nFormats' = n
    /\ subSel' = 0
    /\ subNav' = <<0, 0>>
    /\ SetCursor(EnsureCursorHidden(Cur, managed["format"]))
    /\ managed' = [managed EXCEPT !["format"] = TRUE]
    /\ scopeOpen' = [scopeOpen EXCEPT !["format"] = TRUE]
    /\ screens' = [screens EXCEPT !["format"] = NewScreen(ansi)]
    /\ mpc' = "fmt_render"
    /\ UNCHANGED <<xvars, ovars, pvars, ansi, mainSel, mainNav, lastKey, fmtResult,
                   poolRuns, keyboard, poolResult, lastSave, termWidth, frame,
                   out>>

\* select_format: build the lines, render, read a key.
FmtRender ==
    /\ mpc = "fmt_render"
    /\ Render("format", FormatFrame(nFormats))
    /\ mpc' = "fmt_key"
    /\ UNCHANGED <<xvars, ovars, pvars, ansi, scopeOpen, mainSel, subSel, nFormats,
                   mainNav, subNav, lastKey, fmtResult, poolRuns, keyboard,
                   poolResult, lastSave, termWidth>>

FmtNavKey(k) ==
    /\ mpc = "fmt_key"
    /\ k \in NavKeys
    /\ subNav[1] + subNav[2] < MaxNav
    /\ lastKey' = <<"format", k>>
    /\ subSel' = Moved(subSel, nFormats, k)
    /\ subNav' = Counted(subNav, k)
    /\ mpc' = "fmt_render"
    /\ UNCHANGED <<xvars, ovars, pvars, rvars, ansi, depth, cursorSeq, managed,
                   scopeOpen, mainSel, nFormats, mainNav, fmtResult, poolRuns,
                   keyboard, poolResult, lastSave>>

\* Variant of FmtEndKeys: select_format without its ESC branch.
MutFmtEndKeys == {"ENTER"}
\* The keys that end the loop of select_format.
FmtEndKeys == {"ENTER", "ESC"}

\* A key select_format has no branch for: the loop goes round.
FmtOtherKey(k) ==
    /\ mpc = "fmt_key"
    /\ k \notin NavKeys \cup FmtEndKeys
    /\ lastKey' = <<"format", k>>
    /\ mpc' = "fmt_render"
    /\ UNCHANGED <<xvars, ovars, pvars, rvars, ansi, depth, cursorSeq, managed,
                   scopeOpen, mainSel, subSel, nFormats, mainNav, subNav,
                   fmtResult, poolRuns, keyboard, poolResult, lastSave>>

\* What select_format returns for a key that ends its loop.
FmtReturn(k) == IF k = "ENTER" THEN "confirmed" ELSE "cancelled"

\* Variant of AfterSelect: without the return at "if not selected".
MutAfterSelect(r) == "hd_confirm"
\* if not selected: handle_download reports the cancellation and pauses;
\* otherwise it shows the summary and asks "Start download? (y/n)".
AfterSelect(r) == IF r = "cancelled" THEN "hd_pause" ELSE "hd_confirm"

\* ENTER or ESC in select_format: screen.reset() and return; the with
\* block closes the screen, which resets it again, and handle_download
\* goes on with the result.
FmtEndKey(k) ==
    /\ mpc = "fmt_key"
    /\ k \in FmtEndKeys
    /\ lastKey' = <<"format", k>>
    /\ SetCursor(Close(Cur, managed["format"]))
    /\ managed' = [managed EXCEPT !["format"] = FALSE]
    /\ scopeOpen' = [scopeOpen EXCEPT !["format"] = FALSE]
    /\ screens' = [screens EXCEPT !["format"] = Reset(Reset(screens["format"]))]
    /\ fmtResult' = FmtReturn(k)
    /\ mpc' = AfterSelect(FmtReturn(k))
    /\ UNCHANGED <<xvars, ovars, pvars, ansi, mainSel, subSel, nFormats, mainNav,
                   subNav, poolRuns, keyboard, poolResult, lastSave,
                   termWidth, frame, out>>

\* The answer to "Start download? (y/n)": y creates the thread pool and
\* submits the job; anything else reports the cancellation and pauses.
HdConfirm(yes) ==
    /\ mpc = "hd_confirm"
    /\ IF yes
       THEN /\ poolRuns' = poolRuns + 1
            /\ mpc' = "hd_run"
       ELSE /\ mpc' = "hd_pause"
            /\ UNCHANGED poolRuns
    /\ UNCHANGED <<xvars, ovars, pvars, rvars, ansi, depth, cursorSeq, managed,
                   scopeOpen, mainSel, subSel, nFormats, mainNav, subNav,
                   lastKey, fmtResult, keyboard, poolResult, lastSave>>

\* The as_completed loop has ended and the pool is shut down: result_errs
\* is empty, or it holds the error of the job that exhausted its attempts.
HdPoolDone(failed) ==
    /\ mpc = "hd_run"
    /\ poolResult' = IF failed THEN "errors" ELSE "ok"
    /\ mpc' = "hd_report"
    /\ UNCHANGED <<xvars, ovars, pvars, rvars, ansi, depth, cursorSeq, managed,
                   scopeOpen, mainSel, subSel, nFormats, mainNav, subNav,
                   lastKey, fmtResult, poolRuns, keyboard, lastSave>>

\* print(success_text(...)) raises NameError, which nothing catches: no
\* report is printed and the pause is not reached.
HdReport ==
    /\ mpc = "hd_report"
    /\ Crash(Cur)
    /\ UNCHANGED <<xvars, ovars, pvars, ansi, mainSel, subSel, nFormats, mainNav,
                   subNav, lastKey, fmtResult, poolRuns, keyboard, poolResult,
                   lastSave, termWidth, frame, out>>

(***************************************************************************)
(* configure_settings.                                                     *)
(***************************************************************************)
SetRender ==
    /\ mpc = "set_render"
    /\ subSel' = Min(subSel, Len(SettingsOptions) - 1)
    /\ Render("settings", SettingsFrame)
    /\ mpc' = "set_key"
    /\ UNCHANGED <<xvars, ovars, pvars, ansi, scopeOpen, mainSel, nFormats, mainNav,
                   subNav, lastKey, fmtResult, poolRuns, keyboard, poolResult,
                   lastSave, termWidth>>

SetNavKey(k) ==
    /\ mpc = "set_key"
    /\ k \in NavKeys
    /\ subNav[1] + subNav[2] < MaxNav
    /\ lastKey' = <<"settings", k>>
    /\ subSel' = Moved(subSel, Len(SettingsOptions), k)
    /\ subNav' = Counted(subNav, k)
    /\ mpc' = "set_render"
    /\ UNCHANGED <<xvars, ovars, pvars, rvars, ansi, depth, cursorSeq, managed,
                   scopeOpen, mainSel, nFormats, mainNav, fmtResult, poolRuns,
                   keyboard, poolResult, lastSave>>

\* A key configure_settings has no branch for: the loop goes round.
SetOtherKey(k) ==
    /\ mpc = "set_key"
    /\ k \notin NavKeys \cup MenuEndKeys
    /\ lastKey' = <<"settings", k>>
    /\ mpc' = "set_render"
    /\ UNCHANGED <<xvars, ovars, pvars, rvars, ansi, depth, cursorSeq, managed,
                   scopeOpen, mainSel, subSel, nFormats, mainNav, subNav,
                   fmtResult, poolRuns, keyboard, poolResult, lastSave>>

\* settings.save() returns, or raises the OSError of mkdir, open or write.
SaveOutcome(saved) == IF saved THEN "saved" ELSE "failed"

\* ENTER on Overwrite or Status panel: screen.reset(), the cursor is forced
\* visible, the setting is toggled and settings.save() is called.  If save
\* raises, nothing catches its error; if it returns,
\* print(success_text(...)) raises NameError.
SetEnterToggle(saved) ==
    /\ mpc = "set_key"
    /\ SettingsOptions[subSel + 1] \in {"overwrite", "status"}
    /\ lastKey' = <<"settings", "ENTER">>
    /\ lastSave' = SaveOutcome(saved)
    /\ Crash(PopHidden(Cur, TRUE))
    /\ UNCHANGED <<xvars, ovars, pvars, ansi, mainSel, subSel, nFormats, mainNav,
                   subNav, fmtResult, poolRuns, keyboard, poolResult,
                   termWidth, frame, out>>

\* ENTER on a setting that is typed in: screen.reset(), the cursor is
\* forced visible and the prompt waits for the value.
SetEnterPrompt ==
    /\ mpc = "set_key"
    /\ SettingsOptions[subSel + 1] \in {"output", "parallel", "retries", "chunk"}
    /\ lastKey' = <<"settings", "ENTER">>
    /\ screens' = [screens EXCEPT !["settings"] = Reset(screens["settings"])]
    /\ SetCursor(PopHidden(Cur, TRUE))
    /\ mpc' = "set_input"
    /\ UNCHANGED <<xvars, ovars, pvars, ansi, managed, scopeOpen, mainSel, subSel,
                   nFormats, mainNav, subNav, fmtResult, poolRuns, keyboard,
                   poolResult, lastSave, termWidth, frame, out>>

\* ENTER on Back: screen.reset(), the cursor is forced visible, the loop
\* breaks and the with block closes the screen; main() resets its own
\* screen and goes round its loop.
SetEnterBack ==
    /\ mpc = "set_key"
    /\ SettingsOptions[subSel + 1] = "back"
    /\ lastKey' = <<"settings", "ENTER">>
    /\ SetCursor(Close(PopHidden(Cur, TRUE), managed["settings"]))
    /\ managed' = [managed EXCEPT !["settings"] = FALSE]
    /\ scopeOpen' = [scopeOpen EXCEPT !["settings"] = FALSE]
    /\ screens' = [screens EXCEPT
                      !["settings"] = Reset(Reset(screens["settings"])),
                      !["main"] = Reset(screens["main"])]
    /\ mpc' = "main_render"
    /\ UNCHANGED <<xvars, ovars, pvars, ansi, mainSel, subSel, nFormats, mainNav,
                   subNav, fmtResult, poolRuns, keyboard, poolResult, lastSave,
                   termWidth, frame, out>>

\* The typed value.  A usable one is stored and settings.save() is called:
\* if save raises, nothing catches its error; if it returns,
\* print(success_text(...)) raises NameError.  Another value is reported
\* and the pause follows.
SetInput(valid) ==
    /\ mpc = "set_input"
    /\ IF valid
       THEN /\ \E saved \in BOOLEAN : lastSave' = SaveOutcome(saved)
            /\ Crash(Cur)
       ELSE /\ mpc' = "set_pause"
            /\ UNCHANGED <<depth, cursorSeq, managed, scopeOpen, screens,
                           lastSave>>
    /\ UNCHANGED <<xvars, ovars, pvars, ansi, mainSel, subSel, nFormats, mainNav,
                   subNav, lastKey, fmtResult, poolRuns, keyboard, poolResult,
                   termWidth, frame, out>>

\* The pause was answered: screen.reset() and the loop goes round.
SetPauseReturn ==
    /\ mpc = "set_pause"
    /\ screens' = [screens EXCEPT !["settings"] = Reset(screens["settings"])]
    /\ mpc' = "set_render"
    /\ UNCHANGED <<xvars, ovars, pvars, ansi, depth, cursorSeq, managed, scopeOpen,
                   mainSel, subSel, nFormats, mainNav, subNav, lastKey,
                   fmtResult, poolRuns, keyboard, poolResult, lastSave,
                   termWidth, frame, out>>

MenuNext ==
    \/ \E loaded \in BOOLEAN : \E p \in Platforms : MainStart(loaded, p)
    \/ MainRender
    \/ \E k \in Keys : MainNavKey(k)
    \/ \E k \in Keys : MainOtherKey(k)
    \/ MainEnterDownload
    \/ MainEnterSettings
    \/ MainEnterExit
    \/ HdReturn
    \/ \E given \in BOOLEAN : HdUrl(given)
    \/ HdFetchNothing
    \/ \E n \in 1..MaxFormats : HdFetchFormats(n)
    \/ FmtRender
    \/ \E k \in Keys : FmtNavKey(k)
    \/ \E k \in Keys : FmtOtherKey(k)
    \/ \E k \in Keys : FmtEndKey(k)
    \/ \E yes \in BOOLEAN : HdConfirm(yes)
    \/ \E failed \in BOOLEAN : HdPoolDone(failed)
    \/ HdReport
    \/ SetRender
    \/ \E k \in Keys : SetNavKey(k)
    \/ \E k \in Keys : SetOtherKey(k)
    \/ \E saved \in BOOLEAN : SetEnterToggle(saved)
    \/ SetEnterPrompt
    \/ SetEnterBack
    \/ \E valid \in BOOLEAN : SetInput(valid)
    \/ SetPauseReturn

(***************************************************************************)
(* RuntimeSettings.load.                                                   *)
(***************************************************************************)
\* Most fields the settings.json object sets.
MaxFieldsSet == 2

\* The fields load copies, in the order of its for loop.
FieldNames == <<"OutputFolder", "OverwriteExisting", "ParallelDownloads",
                "RetryAttempts", "ChunkSizeKiB", "ShowStatusPanel">>
FieldSet == {FieldNames[i] : i \in 1..Len(FieldNames)}

\* What a field of the JSON object can hold: null, a string, a string that
\* names the home of a user the system does not know ("~nobody/x"), a
\* number, a boolean, a list or object.
JsonKinds == {"null", "string", "tilde", "number", "bool", "list"}
Absent == "absent"
NoFields == [f \in FieldSet |-> Absent]

\* The JSON objects that set at most MaxFieldsSet of the fields.
Objects ==
    UNION {{[f \in FieldSet |-> IF f \in S THEN g[f] ELSE Absent] :
               g \in [S -> JsonKinds]} :
           S \in {T \in SUBSET FieldSet : Cardinality(T) <= MaxFieldsSet}}

\* The states of settings.json: missing, unreadable (read_text raises),
\* not valid JSON, a JSON value that is not an object, or an object.
Files ==
    {[kind |-> k, fields |-> NoFields] :
        k \in {"missing", "unreadable", "invalid", "scalar"}}
    \cup {[kind |-> "object", fields |-> o] : o \in Objects}

\* cls(): every field holds its default.
Defaults == [f \in FieldSet |-> "default"]

\* payload.get(f) is None: the key is absent or its value is null.
IsNone(v) == v \in {Absent, "null"}
\* Path(v) raises TypeError unless v is a string.
PathRaises(v) == v \notin {"string", "tilde"}
\* Path.expanduser raises RuntimeError on the home of an unknown user.
ExpandRaises(v) == v = "tilde"

LoadOff ==
    /\ lfile = [kind |-> "missing", fields |-> NoFields]
    /\ lpc = "off"
    /\ lfield = 0
    /\ linst = Defaults

LoadInit ==
    /\ lfile \in Files
    /\ lpc = "call"
    /\ lfield = 0
    /\ linst = Defaults

\* instance = cls(); if not instance.SettingsPath.exists(): return instance
LoadStart ==
    /\ lpc = "call"
    /\ linst' = Defaults
    /\ lpc' = IF lfile.kind = "missing" THEN "returned" ELSE "parse"
    /\ UNCHANGED <<ovars, pvars, mvars, rvars, kvars, gvars, lfile, lfield>>

\* try: payload = json.loads(read_text()) / except Exception: return instance
LoadParse ==
    /\ lpc = "parse"
    /\ lpc' = IF lfile.kind \in {"unreadable", "invalid"}
              THEN "returned" ELSE "isdict"
    /\ UNCHANGED <<ovars, pvars, mvars, rvars, kvars, gvars, lfile, lfield, linst>>

\* if isinstance(payload, dict): for f in [...]
LoadIsDict ==
    /\ lpc = "isdict"
    /\ IF lfile.kind = "object"
       THEN lpc' = "field" /\ lfield' = 1
       ELSE lpc' = "refresh" /\ UNCHANGED lfield
    /\ UNCHANGED <<ovars, pvars, mvars, rvars, kvars, gvars, lfile, linst>>

\* One iteration of the for loop:
\*   v = payload.get(f)
\*   if v is not None: setattr(instance, f, v if f != "OutputFolder" else Path(v))
LoadField ==
    /\ lpc = "field"
    /\ LET f == FieldNames[lfield]
           v == lfile.fields[f]
           more == lfield < Len(FieldNames)
       IN  IF ~IsNone(v) /\ f = "OutputFolder" /\ PathRaises(v)
           THEN /\ lpc' = "raised"
                /\ UNCHANGED <<lfield, linst>>
           ELSE /\ linst' = IF IsNone(v) THEN linst
                            ELSE [linst EXCEPT ![f] = v]
                /\ lpc' = IF more THEN "field" ELSE "refresh"
                /\ lfield' = IF more THEN lfield + 1 ELSE lfield
    /\ UNCHANGED <<ovars, pvars, mvars, rvars, kvars, gvars, lfile>>

\* instance.refresh_paths(); return instance
LoadRefresh ==
    /\ lpc = "refresh"
    /\ lpc' = IF ExpandRaises(linst["OutputFolder"])
              THEN "raised" ELSE "returned"
    /\ UNCHANGED <<ovars, pvars, mvars, rvars, kvars, gvars, lfile, lfield, linst>>

LoadNext ==
    \/ LoadStart
    \/ LoadParse
    \/ LoadIsDict
    \/ LoadField
    \/ LoadRefresh

(***************************************************************************)
(* read_keypress.                                                          *)
(***************************************************************************)
\* Most key gestures the user makes.
MaxGestures == 2

Branches == {"msvcrt", "termios"}

\* The bytes a key gesture sends: ANSI sequences on a terminal; on the
\* Windows console a prefix byte (00 or E0) and a scan code.
GestureBytes(branch, g) ==
    IF branch = "termios"
    THEN CASE g = "up" -> <<Esc, "[", "A">>
           [] g = "down" -> <<Esc, "[", "B">>
           [] g = "right" -> <<Esc, "[", "C">>
           [] g = "alt" -> <<Esc, "x">>
           [] g = "escape" -> <<Esc>>
           [] g = "enter" -> <<"CR">>
           [] g = "linefeed" -> <<"LF">>
           [] g = "space" -> <<" ">>
           [] OTHER -> <<"x">>
    ELSE CASE g = "up" -> <<"E0", "H">>
           [] g = "keypad_up" -> <<"00", "H">>
           [] g = "down" -> <<"E0", "P">>
           [] g = "right" -> <<"E0", "M">>
           [] g = "escape" -> <<Esc>>
           [] g = "enter" -> <<"CR">>
           [] g = "linefeed" -> <<"LF">>
           [] g = "space" -> <<" ">>
           [] OTHER -> <<"x">>
Gestures(branch) ==
    {"up", "down", "right", "escape", "enter", "linefeed", "space", "letter"}
    \cup (IF branch = "termios" THEN {"alt"} ELSE {"keypad_up"})

KeysOff ==
    /\ kbranch = "termios"
    /\ kpc = "off"
    /\ kwire = <<>>
    /\ kin = <<>>
    /\ kbuf = <<>>
    /\ kch = ""
    /\ kret = ""
    /\ kgesture = "none"
    /\ ktyped = 0

KeysInit ==
    /\ kbranch \in Branches
    /\ kpc = "idle"
    /\ kwire = <<>>
    /\ kin = <<>>
    /\ kbuf = <<>>
    /\ kch = ""
    /\ kret = ""
    /\ kgesture = "none"
    /\ ktyped = 0

\* The user presses a key while read_keypress waits for one.  The bytes of
\* the gesture reach the input queue together or a few at a time, all of them
\* inside the look-ahead window.
Type(g) ==
    /\ ktyped < MaxGestures
    /\ kpc \in {"read", "getch"}
    /\ kgesture = "none"
    /\ kwire = <<>> /\ kin = <<>> /\ kbuf = <<>>
    /\ LET b == GestureBytes(kbranch, g)
       IN  \E n \in 1..Len(b) :
               /\ kin' = SubSeq(b, 1, n)
               /\ kwire' = SubSeq(b, n + 1, Len(b))
    /\ kgesture' = g
    /\ ktyped' = ktyped + 1
    /\ UNCHANGED <<ovars, pvars, mvars, rvars, lvars, gvars, kbranch, kpc, kbuf,
                   kch, kret>>

\* More bytes of the gesture reach the input queue.
Arrive ==
    /\ kwire # <<>>
    /\ \E n \in 1..Len(kwire) :
           /\ kin' = kin \o SubSeq(kwire, 1, n)
           /\ kwire' = SubSeq(kwire, n + 1, Len(kwire))
    /\ UNCHANGED <<ovars, pvars, mvars, rvars, lvars, gvars, kbranch, kpc, kbuf,
                   kch, kret, kgesture, ktyped>>

\* A menu loop calls read_keypress.  The termios branch starts with
\* tty.setraw(fd), whose tcsetattr(TCSAFLUSH) discards the queued input.
KeyCall ==
    /\ kpc \in {"idle", "returned"}
    /\ kpc' = IF kbranch = "msvcrt" THEN "flush" ELSE "read"
    /\ kin' = IF kbranch = "msvcrt" THEN kin ELSE <<>>
    /\ kgesture' = "none"
    /\ UNCHANGED <<ovars, pvars, mvars, rvars, lvars, gvars, kbranch, kwire, kbuf,
                   kch, kret, ktyped>>

\* return v, and the fall through to the final return "".
KeyReturn(v) ==
    /\ kpc' = "returned"
    /\ kret' = v

\* while msvcrt.kbhit(): msvcrt.getch()
KFlush ==
    /\ kpc = "flush"
    /\ kin' = <<>>
    /\ kpc' = "getch"
    /\ UNCHANGED <<ovars, pvars, mvars, rvars, lvars, gvars, kbranch, kwire, kbuf,
                   kch, kret, kgesture, ktyped>>

\* key = msvcrt.getch() and the if / elif chain on key.
KGetch ==
    /\ kpc = "getch"
    /\ kin # <<>>
    /\ LET key == Head(kin)
       IN  /\ kch' = key
           /\ kin' = Tail(kin)
           /\ IF key \in {"00", "E0"}
              THEN kpc' = "getch2" /\ UNCHANGED kret
              ELSE KeyReturn(CASE key = "CR" -> "ENTER"
                               [] key = " " -> "SPACE"
                               [] key = Esc -> "ESC"
                               [] OTHER -> "")
    /\ UNCHANGED <<ovars, pvars, mvars, rvars, lvars, gvars, kbranch, kwire, kbuf,
                   kgesture, ktyped>>

\* k = msvcrt.getch(); return "UP" if k==b'H' else "DOWN" if k==b'P' else ""
KGetch2 ==
    /\ kpc = "getch2"
    /\ kin # <<>>
    /\ kin' = Tail(kin)
    /\ KeyReturn(CASE Head(kin) = "H" -> "UP"
                   [] Head(kin) = "P" -> "DOWN"
                   [] OTHER -> "")
    /\ UNCHANGED <<ovars, pvars, mvars, rvars, lvars, gvars, kbranch, kwire, kbuf,
                   kch, kgesture, ktyped>>

\* sys.stdin.read(1): the next character of the text buffer of sys.stdin;
\* when the buffer is empty it is filled with every byte the input queue
\* holds, waiting until there is one.
CanRead == kbuf # <<>> \/ kin # <<>>
ReadChar == IF kbuf # <<>> THEN Head(kbuf) ELSE Head(kin)
StdinRead ==
    /\ CanRead
    /\ IF kbuf # <<>>
       THEN kbuf' = Tail(kbuf) /\ UNCHANGED kin
       ELSE kbuf' = Tail(kin) /\ kin' = <<>>

\* ch = sys.stdin.read(1) and the tests on ch.
KRead ==
    /\ kpc = "read"
    /\ StdinRead
    /\ kch' = ReadChar
    /\ IF ReadChar = Esc
       THEN kpc' = "select" /\ UNCHANGED kret
       ELSE KeyReturn(CASE ReadChar \in {"CR", "LF"} -> "ENTER"
                        [] ReadChar = " " -> "SPACE"
                        [] OTHER -> "")
    /\ UNCHANGED <<ovars, pvars, mvars, rvars, lvars, gvars, kbranch, kwire,
                   kgesture, ktyped>>

\* ready,_,_ = select.select([sys.stdin],[],[],0.05)
\* if not ready: return "ESC"
\* select looks at the file descriptor: it is ready when the input queue
\* holds a byte, and times out once no byte is on its way.
KSelect ==
    /\ kpc = "select"
    /\ kin # <<>> \/ kwire = <<>>
    /\ IF kin = <<>>
       THEN KeyReturn("ESC")
       ELSE kpc' = "read2" /\ UNCHANGED kret
    /\ UNCHANGED <<ovars, pvars, mvars, rvars, lvars, gvars, kbranch, kwire, kin,
                   kbuf, kch, kgesture, ktyped>>

\* next = sys.stdin.read(1); if next == '[': ... ; return next
KRead2 ==
    /\ kpc = "read2"
    /\ StdinRead
    /\ IF ReadChar = "["
       THEN kpc' = "read3" /\ UNCHANGED kret
       ELSE KeyReturn(ReadChar)
    /\ UNCHANGED <<ovars, pvars, mvars, rvars, lvars, gvars, kbranch, kwire, kch,
                   kgesture, ktyped>>

\* arr = sys.stdin.read(1)
\* return "UP" if arr=='A' else "DOWN" if arr=='B' else ""
KRead3 ==
    /\ kpc = "read3"
    /\ StdinRead
    /\ KeyReturn(CASE ReadChar = "A" -> "UP"
                   [] ReadChar = "B" -> "DOWN"
                   [] OTHER -> "")
    /\ UNCHANGED <<ovars, pvars, mvars, rvars, lvars, gvars, kbranch, kwire, kch,
                   kgesture, ktyped>>

KeysNext ==
    \/ \E g \in Gestures(kbranch) : Type(g)
    \/ Arrive
    \/ KeyCall
    \/ KFlush
    \/ KGetch
    \/ KGetch2
    \/ KRead
    \/ KSelect
    \/ KRead2
    \/ KRead3

(***************************************************************************)
(* VideoDownloaderGUI (src/video_downloader.py).  The Tk main thread runs  *)
(* one handler at a time: a button command or a callback given to          *)
(* root.after.  Fetch threads and download threads run beside it.          *)
(***************************************************************************)
\* Most clicks on "Fetch Formats" with a URL entered.
MaxFetches == 2
\* The URLs the user enters.
MaxUrls == 2
\* Most combined video+audio formats of a video.
MaxGuiFormats == 2
\* Most downloads started.
MaxDownloads == 2

Urls == 1..MaxUrls
FetchIds == 1..MaxFetches
DlIds == 1..MaxDownloads

\* f.get('format_id') of the i-th combined format of the video at URL u.
FormatId(u, i) == <<u, i>>
\* format_str, the listbox row built from the same format.
FormatStr(u, i) == <<"row", u, i>>
\* The format a row describes.
Describes(row) == <<row[2], row[3]>>
NoRow == <<"row", 0, 0>>

IdleFetch == [pc |-> "idle", url |-> 0, k |-> 0, list |-> <<>>]
IdleDl == [pc |-> "idle", fmt |-> FormatId(0, 0), row |-> NoRow]
\* root.after(0, callback, *args)
Callback(kind, rows) == [kind |-> kind, rows |-> rows]

GuiOff ==
    /\ gcount = [u \in Urls |-> 0]
    /\ gformats = <<>>
    /\ glistbox = <<>>
    /\ gbtn = "off"
    /\ gfetch = [t \in FetchIds |-> IdleFetch]
    /\ gqueue = <<>>
    /\ gdl = [d \in DlIds |-> IdleDl]
    /\ gindexError = FALSE

\* __init__ and create_widgets: self.formats = [], an empty listbox and the
\* download button created with state="disabled".
GuiInit ==
    /\ gcount \in [Urls -> 0..MaxGuiFormats]
    /\ gformats = <<>>
    /\ glistbox = <<>>
    /\ gbtn = "disabled"
    /\ gfetch = [t \in FetchIds |-> IdleFetch]
    /\ gqueue = <<>>
    /\ gdl = [d \in DlIds |-> IdleDl]
    /\ gindexError = FALSE

GuiFrame == UNCHANGED <<ovars, pvars, mvars, rvars, lvars, kvars, gcount>>

\* fetch_formats with URL u entered: the listbox is emptied and a thread
\* started.  (With no URL it shows an error and changes nothing.)
ClickFetch(u) ==
    /\ u \in Urls
    /\ \E t \in FetchIds :
           /\ gfetch[t].pc = "idle"
           /\ \A i \in FetchIds : i < t => gfetch[i].pc # "idle"
           /\ gfetch' = [gfetch EXCEPT ![t] = [IdleFetch EXCEPT
                                                  !.pc = "extract", !.url = u]]
    /\ glistbox' = <<>>
    /\ GuiFrame
    /\ UNCHANGED <<gformats, gbtn, gqueue, gdl, gindexError>>

\* _fetch_formats_thread: ydl.extract_info returns, or raises and the
\* except clause gives _show_error to root.after.
FetchExtract(t, ok) ==
    /\ t \in FetchIds
    /\ gfetch[t].pc = "extract"
    /\ IF ok
       THEN /\ gfetch' = [gfetch EXCEPT ![t].pc = "reset"]
            /\ UNCHANGED gqueue
       ELSE /\ gfetch' = [gfetch EXCEPT ![t].pc = "done"]
            /\ gqueue' = Append(gqueue, Callback("error", <<>>))
    /\ GuiFrame
    /\ UNCHANGED <<gformats, glistbox, gbtn, gdl, gindexError>>

\* self.formats = []; format_list = []
FetchReset(t) ==
    /\ t \in FetchIds
    /\ gfetch[t].pc = "reset"
    /\ gformats' = <<>>
    /\ gfetch' = [gfetch EXCEPT ![t].pc = "append", ![t].k = 0,
                                ![t].list = <<>>]
    /\ GuiFrame
    /\ UNCHANGED <<glistbox, gbtn, gqueue, gdl, gindexError>>

\* One combined format of the loop: format_list.append(format_str);
\* self.formats.append(format_id), on whatever list self.formats is now.
FetchAppend(t) ==
    /\ t \in FetchIds
    /\ gfetch[t].pc = "append"
    /\ gfetch[t].k < gcount[gfetch[t].url]
    /\ LET u == gfetch[t].url
           i == gfetch[t].k + 1
       IN  /\ gformats' = Append(gformats, FormatId(u, i))
           /\ gfetch' = [gfetch EXCEPT
                            ![t].k = i,
                            ![t].list = Append(gfetch[t].list, FormatStr(u, i))]
    /\ GuiFrame
    /\ UNCHANGED <<glistbox, gbtn, gqueue, gdl, gindexError>>

\* self.root.after(0, self._update_format_list, format_list, title)
FetchPost(t) ==
    /\ t \in FetchIds
    /\ gfetch[t].pc = "append"
    /\ gfetch[t].k = gcount[gfetch[t].url]
    /\ gqueue' = Append(gqueue, Callback("update", gfetch[t].list))
    /\ gfetch' = [gfetch EXCEPT ![t].pc = "done"]
    /\ GuiFrame
    /\ UNCHANGED <<gformats, glistbox, gbtn, gdl, gindexError>>

\* The state of the download button after callback c: _update_format_list
\* with a list that is not empty, _download_complete and the lambda of
\* _download_thread set it to "normal"; _show_error leaves it.
ButtonAfter(c) ==
    IF c.kind = "update" /\ c.rows # <<>> THEN "normal"
    ELSE IF c.kind \in {"complete", "enable"} THEN "normal"
    ELSE gbtn

\* The rows after callback c: _update_format_list inserts each row at the
\* end.
ListboxAfter(c) ==
    IF c.kind = "update" THEN glistbox \o c.rows ELSE glistbox

\* The main thread runs the oldest callback given to root.after.
Dispatch ==
    /\ gqueue # <<>>
    /\ gqueue' = Tail(gqueue)
    /\ glistbox' = ListboxAfter(Head(gqueue))
    /\ gbtn' = ButtonAfter(Head(gqueue))
    /\ GuiFrame
    /\ UNCHANGED <<gformats, gfetch, gdl, gindexError>>

\* download_video with row sel selected: the button runs its command only
\* when its state is "normal".  self.formats[selection[0]] raises IndexError
\* when the list is shorter than the listbox; otherwise the button is
\* disabled and a thread started.  (With no row selected it shows a warning
\* and changes nothing.)
ClickDownload(sel) ==
    /\ gbtn = "normal"
    /\ sel \in 1..Len(glistbox)
    /\ IF sel > Len(gformats)
       THEN /\ gindexError' = TRUE
            /\ UNCHANGED <<gbtn, gdl>>
       ELSE /\ \E d \in DlIds :
                   /\ gdl[d].pc = "idle"
                   /\ \A i \in DlIds : i < d => gdl[i].pc # "idle"
                   /\ gdl' = [gdl EXCEPT ![d] = [pc |-> "running",
                                                 fmt |-> gformats[sel],
                                                 row |-> glistbox[sel]]]
            /\ gbtn' = "disabled"
            /\ UNCHANGED gindexError
    /\ GuiFrame
    /\ UNCHANGED <<gformats, glistbox, gfetch, gqueue>>

\* _download_thread: ydl.download returns and _download_complete is given
\* to root.after, or it raises and _show_error and the lambda that enables
\* the button are.
DlFinish(d, ok) ==
    /\ d \in DlIds
    /\ gdl[d].pc = "running"
    /\ gdl' = [gdl EXCEPT ![d].pc = "done"]
    /\ gqueue' = IF ok THEN Append(gqueue, Callback("complete", <<>>))
                 ELSE gqueue \o <<Callback("error", <<>>),
                                  Callback("enable", <<>>)>>
    /\ GuiFrame
    /\ UNCHANGED <<gformats, glistbox, gbtn, gfetch, gindexError>>

GuiNext ==
    \/ \E u \in Urls : ClickFetch(u)
    \/ \E t \in FetchIds : \E ok \in BOOLEAN : FetchExtract(t, ok)
    \/ \E t \in FetchIds : FetchReset(t)
    \/ \E t \in FetchIds : FetchAppend(t)
    \/ \E t \in FetchIds : FetchPost(t)
    \/ Dispatch
    \/ \E sel \in 1..(MaxFetches * MaxGuiFormats) : ClickDownload(sel)
    \/ \E d \in DlIds : \E ok \in BOOLEAN : DlFinish(d, ok)

(***************************************************************************)
(* Specifications.                                                         *)
(***************************************************************************)
InitOrch == OrchInit /\ ProgOff /\ MenuOff /\ RenderOff /\ LoadOff /\ KeysOff /\ GuiOff
InitProgress == OrchOff /\ ProgInit /\ MenuOff /\ RenderOff /\ LoadOff /\ KeysOff /\ GuiOff
InitMenu == OrchOff /\ ProgOff /\ MenuInit /\ RenderOff /\ LoadOff /\ KeysOff /\ GuiOff
InitRender == OrchOff /\ ProgOff /\ RenderInit /\ LoadOff /\ KeysOff /\ GuiOff
InitLoad == OrchOff /\ ProgOff /\ MenuOff /\ RenderOff /\ LoadInit /\ KeysOff /\ GuiOff
InitKeys == OrchOff /\ ProgOff /\ MenuOff /\ RenderOff /\ LoadOff /\ KeysInit /\ GuiOff
InitGui == OrchOff /\ ProgOff /\ MenuOff /\ RenderOff /\ LoadOff /\ KeysOff /\ GuiInit

SpecOrch == InitOrch /\ [][OrchNext]_vars

\* The executor's threads and the main thread keep running: a thread that
\* can take a step eventually does.
OrchFairness ==
    /\ \A j \in 1..NumJobs : WF_vars(Submit(j))
    /\ WF_vars(SubmitDone)
    /\ \A j \in 1..NumJobs : WF_vars(Start(j))
    /\ \A j \in 1..NumJobs : WF_vars(\E ok \in BOOLEAN : Attempt(j, ok))
    /\ \A j \in 1..NumJobs : WF_vars(Exhausted(j))
    /\ \A j \in 1..NumJobs : WF_vars(Collect(j))
    /\ WF_vars(CollectDone)
    /\ WF_vars(AfterPool)
FairSpecOrch == InitOrch /\ [][OrchNext]_vars /\ OrchFairness

SpecProgress == InitProgress /\ [][ProgNext]_vars

SpecMenu == InitMenu /\ [][MenuNext]_vars

SpecRender == InitRender /\ [][RenderNext]_vars

SpecLoad == InitLoad /\ [][LoadNext]_vars

SpecKeys == InitKeys /\ [][KeysNext]_vars

SpecGui == InitGui /\ [][GuiNext]_vars

(***************************************************************************)
(* Claims about the orchestration.                                         *)
(***************************************************************************)
OutcomeJobs == {outcomes[a][1] : a \in 1..Len(outcomes)}
Done(j) == fut[j] = "done"

\* C1: every iteration of the as_completed loop handles the result of a
\* submitted job no earlier iteration handled, and when the orchestration
\* has completed there are exactly K outcomes, one for each of the K jobs.
C1_Exhaustive ==
    /\ \A a \in 1..Len(outcomes) :
          /\ outcomes[a][1] \in Jobs
          /\ Done(outcomes[a][1])
          /\ <<outcomes[a][2], outcomes[a][3]>> = result[outcomes[a][1]]
          /\ \A b \in 1..Len(outcomes) : a # b => outcomes[a][1] # outcomes[b][1]
    /\ opc = "done" => Len(outcomes) = numJobs /\ OutcomeJobs = Jobs

\* C1 witness: K = NumJobs jobs on fewer workers have all been collected,
\* one after a retry and one as a failure.
C1_Witness ==
    /\ opc = "done"
    /\ numJobs = NumJobs
    /\ maxWorkers < numJobs
    /\ \E j \in Jobs : result[j][1] /\ attempt[j] >= 2
    /\ \E j \in Jobs : ~result[j][1] /\ attempt[j] >= 2

\* C2: a finished job made one transfer call per attempt; if it succeeded,
\* its last call is the only one that returned and it is attempt k <= tries;
\* if it failed, it made exactly tries calls, all raised, and its error is
\* that of the last one.  No job makes a call after one that returned.
C2_RetryBound ==
    \A j \in Jobs :
        LET n == Len(xfer[j]) IN
        /\ attempt[j] = n
        /\ \A i \in 1..(n - 1) : ~xfer[j][i]
        /\ Done(j) /\ result[j][1] =>
              /\ n \in 1..tries
              /\ xfer[j][n]
              /\ result[j][2] = NoneVal
        /\ Done(j) /\ ~result[j][1] =>
              /\ n = tries
              /\ \A i \in 1..n : ~xfer[j][i]
              /\ n >= 1 => result[j][2] = Str(Exc(j, n))

\* C2 witness: one job failed on all of its attempts (more than one) and
\* another succeeded on a later attempt than the first.
C2_Witness ==
    /\ tries >= 2
    /\ \E j \in Jobs : Done(j) /\ ~result[j][1] /\ attempt[j] = tries
    /\ \E j \in Jobs : Done(j) /\ result[j][1] /\ attempt[j] >= 2

\* C3: a finished job has made at least one attempt and at most tries.
C3_AtLeastOneAttempt ==
    \A j \in Jobs : Done(j) => attempt[j] >= 1 /\ attempt[j] <= tries

\* C4: never more than max_workers jobs execute at once, and every queued
\* job is admitted: it comes to run once running jobs have finished.
C4_BoundedPool ==
    /\ [](Cardinality(Running) <= maxWorkers)
    /\ \A j \in 1..NumJobs : (fut[j] = "queued") ~> (fut[j] = "running")

\* C4 witness: on a pool of one worker the first job has finished and the
\* second, which was queued meanwhile, is running.
C4_Witness ==
    /\ maxWorkers = 1
    /\ numJobs >= 2
    /\ Done(1)
    /\ fut[2] = "running"

(***************************************************************************)
(* Claims about the progress aggregator.                                   *)
(***************************************************************************)
Apart(a, b) == IF a >= b THEN a - b ELSE b - a
InLock == {w \in Threads : ppc[w] \in {"u_hdr", "u_prog", "c_write"}}

\* C5: any two update calls that wrote to the terminal were made at least
\* half a second (RateLimitTicks) apart.
C5_RateLimited ==
    \A a \in accepted : \A b \in accepted :
        a # b => Apart(a[3], b[3]) >= RateLimitTicks

\* C6: a header line is followed on the terminal by the progress line of
\* the same update call and by nothing else; while a thread is between the
\* two it holds the lock, and at most one thread is inside a with block of
\* update or complete.
C6_Serialized ==
    /\ Cardinality(InLock) <= 1
    /\ \A w \in InLock : lockHolder = w
    /\ Len(lastWrites) = 2 /\ lastWrites[1].kind = "header" =>
          /\ lastWrites[2].kind = "progress"
          /\ lastWrites[2].by = lastWrites[1].by
          /\ lastWrites[2].call = lastWrites[1].call
    /\ Len(lastWrites) >= 1 /\ lastWrites[Len(lastWrites)].kind = "header" =>
          /\ ppc[lastWrites[Len(lastWrites)].by] = "u_prog"
          /\ lockHolder = lastWrites[Len(lastWrites)].by

\* C6 witness: a thread has printed its header line and not yet its
\* progress line while another thread waits for the lock in update.
C6_Witness ==
    \E w \in Threads : \E v \in Threads :
        /\ w # v
        /\ ppc[w] = "u_prog"
        /\ Len(lastWrites) >= 1
        /\ lastWrites[Len(lastWrites)] = [by |-> w, kind |-> "header", call |-> pcall[w]]
        /\ ppc[v] = "u_lock"

(***************************************************************************)
(* Claims about the menu loops and the cursor.                             *)
(***************************************************************************)
Net(nav) == nav[2] - nav[1]
InSettings == mpc \in {"set_render", "set_key", "set_input", "set_pause"}
InFormat == mpc \in {"fmt_render", "fmt_key"}
KeyWait(m) ==
    IF m = "main" THEN "main_key"
    ELSE IF m = "settings" THEN "set_key" ELSE "fmt_key"
RenderOf(m) ==
    IF m = "main" THEN "main_render"
    ELSE IF m = "settings" THEN "set_render" ELSE "fmt_render"

\* C7: in each of the three menu loops the selection is the number of
\* Down events minus the number of Up events the loop has handled, modulo
\* its number of options.
C7_Wraparound ==
    /\ mainSel = Net(mainNav) % Len(MainOptions)
    /\ InSettings => subSel = Net(subNav) % Len(SettingsOptions)
    /\ InFormat => subSel = Net(subNav) % nFormats

\* C7 witness: in the format menu with the most options, Up at selection 0
\* gave the last option and Down from there gave 0 again.
C7_Witness ==
    /\ mpc = "fmt_render"
    /\ nFormats = MaxFormats
    /\ subNav = <<1, 1>>
    /\ lastKey = <<"format", "DOWN">>
    /\ subSel = 0

\* C8, as claimed: in every menu loop a Cancel event read in the Active
\* state ends the loop.
C8_CancelEndsEveryMenu ==
    [][\A m \in Screens :
          mpc = KeyWait(m) /\ lastKey' = <<m, "ESC">> => ~scopeOpen'[m]]_vars

\* C8, amended: in the format-selection menu a Cancel event ends the loop
\* with the cancelled result; the main menu and the settings menu stay
\* active on Cancel, with the selection unchanged.
C8_CancelEndsFormatMenu ==
    [][/\ mpc = "fmt_key" /\ lastKey' = <<"format", "ESC">> =>
             /\ ~scopeOpen'["format"]
             /\ fmtResult' = "cancelled"
             /\ mpc' = "hd_pause"
       /\ \A m \in {"main", "settings"} :
             mpc = KeyWait(m) /\ lastKey' = <<m, "ESC">> =>
                 /\ scopeOpen'[m]
                 /\ mpc' = RenderOf(m)
                 /\ UNCHANGED <<mainSel, subSel>>]_vars

\* C8 witness: select_format has just ended on ESC.
C8_Witness ==
    /\ lastKey = <<"format", "ESC">>
    /\ fmtResult = "cancelled"
    /\ ~scopeOpen["format"]
    /\ mpc = "hd_pause"

\* C9: once select_format has returned the cancelled result, that call of
\* handle_download neither asks to start the download nor creates a thread
\* pool; it does both only with a confirmed format.
C9_CancelNoDownload ==
    /\ fmtResult = "cancelled" => poolRuns = 0 /\ mpc \notin {"hd_confirm", "hd_run"}
    /\ mpc \in {"hd_confirm", "hd_run"} => fmtResult = "confirmed"
    /\ poolRuns > 0 => fmtResult = "confirmed"

\* C9 witness: the format menu was cancelled after Up or Down events.
C9_Witness ==
    /\ fmtResult = "cancelled"
    /\ lastKey = <<"format", "ESC">>
    /\ subNav # <<0, 0>>
    /\ mpc = "hd_pause"

\* C10, as claimed: while a MenuScreen that acquired the hidden cursor is
\* open the cursor is not shown, and the show sequence is written only
\* when the outermost screen, that of main(), has exited.
C10_HiddenWhileScopeOpen ==
    /\ (\E s \in Screens : scopeOpen[s] /\ managed[s]) => cursorSeq # "show"
    /\ cursorSeq = "show" => ~scopeOpen["main"]

\* C10, amended: the cursor is hidden exactly while the hide depth is
\* positive, and every menu loop waits for a key with the depth positive
\* (the forced pops of handle_download and of a confirmed settings action
\* zero the depth and show the cursor while screens are open).
C10_HiddenWhileDepthPositive ==
    /\ ansi => (depth > 0 <=> cursorSeq = "hide")
    /\ depth = 0 => cursorSeq # "hide"
    /\ mpc \in {"main_key", "set_key", "fmt_key"} => depth > 0

\* C10 witness: after the forced pop of handle_download the format menu
\* waits for a key inside the screen of main(), the cursor hidden again.
C10_Witness ==
    /\ ansi
    /\ mpc = "fmt_key"
    /\ scopeOpen["main"] /\ managed["main"]
    /\ scopeOpen["format"] /\ managed["format"]
    /\ depth = 1
    /\ cursorSeq = "hide"

(***************************************************************************)
(* Claims about the renderer.                                              *)
(***************************************************************************)
\* ceil(n / w): the least number of rows of w columns that hold n
\* characters.
CeilDiv(n, w) ==
    CHOOSE q \in 0..n : q * w >= n /\ \A p \in 0..(q - 1) : p * w < n
RECURSIVE RowsFrom(_, _, _)
RowsFrom(f, w, i) ==
    IF i > Len(f) THEN 0
    ELSE Max(1, CeilDiv(f[i], w)) + RowsFrom(f, w, i + 1)
\* The rows frame f occupies on a terminal of w columns.
OccupiedRows(f, w) == RowsFrom(f, w, 1)
\* A step of render on the screen of main(): reset leaves _initial True,
\* and a resize changes the width.
IsRenderStep == termWidth' = termWidth /\ ~screens'["main"].initial

\* C11: at every non-first render that moves the cursor up and erases, the
\* number of rows it moves up is the number of rows the previous frame
\* occupies at the terminal width current at this render.
C11_EraseMatchesPreviousFrame ==
    [][IsRenderStep /\ ~screens["main"].initial /\ out'.mode = "up" =>
           out'.rows = OccupiedRows(frame, termWidth)]_vars

\* C12: for every frame and every width W >= 1 the count render records
\* is the sum over the lines of max(1, ceil(len_i / W)), where len_i is the
\* visible length of line i; an empty line counts as one row.
C12_MeasureIsSumOfCeilings ==
    [][IsRenderStep =>
           screens'["main"].displayLines = OccupiedRows(frame', termWidth)]_vars

\* C12 witness: a frame of a styled empty line and a styled line of
\* MaxText characters was measured on a terminal of one column.
C12_Witness ==
    /\ ansi
    /\ termWidth = 1
    /\ frame = <<0, MaxText>>
    /\ ~screens["main"].initial
    /\ screens["main"].displayLines = 1 + MaxText

\* C20: render writes the relative sequence exactly when it is not the
\* first render since reset(), the terminal supports cursor movement and
\* the recorded row count is positive, and then with that count; in every
\* other case it clears the whole screen; afterwards the recorded count is
\* the row count of the frame just written.
C20_RelativeOnlyWhenSafe ==
    [][IsRenderStep =>
           /\ out'.mode \in {"up", "clear"}
           /\ out'.mode = "up" <=>
                 /\ ~screens["main"].initial
                 /\ screens["main"].supportsCursor
                 /\ screens["main"].displayLines > 0
           /\ out'.mode = "up" => out'.rows = screens["main"].displayLines
           /\ out'.mode = "clear" => out'.rows = 0
           /\ screens'["main"].displayLines = OccupiedRows(frame', termWidth)]_vars

\* C20 witness: after a frame of no lines, which records the count 0, the
\* next render on a terminal that supports cursor movement cleared the
\* whole screen.
C20_Witness ==
    /\ ansi
    /\ screens["main"].supportsCursor
    /\ ~screens["main"].initial
    /\ out = ClearOut
    /\ Len(frame) > 0
    /\ screens["main"].displayLines > 0
    /\ depth = 1

(***************************************************************************)
(* Claims about failures, the keyboard probe and the resets of the menus.  *)
(***************************************************************************)
\* C13: once the orchestration has completed, with every job succeeded or
\* with a failed job, the process is not terminated: handle_download
\* reports, pauses and returns to the loop of main().
C13_ReportedNotTerminated ==
    poolResult \in {"ok", "errors"} => mpc # "crashed"

\* C14: a settings.save() that raised does not terminate the process: the
\* loop of the settings menu goes on.
C14_FailedSaveNonFatal ==
    lastSave = "failed" => InSettings

\* C16: when supports_keyboard_navigation() has returned False, main() has
\* returned: no screen was entered, nothing was rendered and no key was
\* read.
C16_NoMenuWithoutKeyboard ==
    keyboard = "no" =>
        /\ mpc = "ended"
        /\ \A s \in Screens : ~scopeOpen[s] /\ ~managed[s] /\ screens[s].initial
        /\ out = NoOut
        /\ frame = NoFrame
        /\ lastKey = <<"none", "">>
        /\ depth = 0 /\ cursorSeq = "none"

\* C16 witness: the probe returned False and main() has returned.
C16_Witness ==
    /\ keyboard = "no"
    /\ mpc = "ended"

\* The keys on which menu m enters a terminal state.
EndKeysOf(m) == IF m = "format" THEN {"ENTER", "ESC"} ELSE {"ENTER"}
IsReset(s) == screens[s].initial /\ screens[s].displayLines = 0

\* C19: a menu that has entered a terminal state has reset its screen
\* before control leaves its loop: while handle_download,
\* configure_settings or select_format run, the screen of main() is reset;
\* while a settings action runs, the screen of the settings menu is; a
\* screen that is not open is; and the first render after a terminal state
\* of any menu finds its screen reset and clears the whole screen.
C19_ResetBeforeLeaving ==
    /\ [](/\ mpc \notin {"off", "start", "main_render", "main_key"} => IsReset("main")
          /\ mpc \in {"set_input", "set_pause"} => IsReset("settings")
          /\ \A s \in Screens : ~scopeOpen[s] => IsReset(s))
    /\ [][\A m \in Screens :
             /\ mpc = RenderOf(m) /\ mpc' = KeyWait(m)
             /\ \E n \in Screens : lastKey[1] = n /\ lastKey[2] \in EndKeysOf(n)
             => IsReset(m) /\ out' = ClearOut]_vars

\* C19 witness: on a terminal that supports cursor movement the settings
\* menu has rendered again after a confirmed action, its prompt and its
\* pause, and that render cleared the whole screen.
C19_Witness ==
    /\ ansi
    /\ mpc = "set_key"
    /\ lastKey = <<"settings", "ENTER">>
    /\ SettingsOptions[subSel + 1] \in {"output", "parallel", "retries", "chunk"}
    /\ out = ClearOut
    /\ ~screens["settings"].initial
    /\ screens["settings"].displayLines = Len(SettingsFrame)

\* C15: RuntimeSettings.load never fails the process: whatever settings.json
\* holds (nothing, unreadable or invalid text, a JSON value that is not an
\* object, an object with fields of unexpected type or value), load returns
\* a settings record and raises no error.
C15_LoadNeverRaises == lpc # "raised"

\* What a gesture decodes to; every gesture other than Up, Down, Escape and
\* the two line terminators must give a value no menu loop acts on.
MenuEvents == {"UP", "DOWN", "ENTER", "ESC"}
Decoded(g, v) ==
    CASE g \in {"up", "keypad_up"} -> v = "UP"
      [] g = "down" -> v = "DOWN"
      [] g = "escape" -> v = "ESC"
      [] g \in {"enter", "linefeed"} -> v = "ENTER"
      [] OTHER -> v \notin MenuEvents

\* C18: read_keypress decodes one key gesture per call: a lone Escape gives
\* ESC, the arrow sequences give UP and DOWN with the whole sequence
\* consumed, carriage return and line feed both give ENTER on either
\* branch, and any other gesture gives a value that is none of these four.
C18_OneGesturePerCall ==
    (kpc = "returned" /\ kgesture # "none")
        => /\ Decoded(kgesture, kret)
           /\ kwire = <<>> /\ kin = <<>> /\ kbuf = <<>>

\* C17: for every job that reaches its terminal outcome, succeeded or failed
\* after its retries, the progress display prints exactly one completion
\* line: complete is called once for the job.
C17_OneCompletionPerJob ==
    \A j \in Jobs : fut[j] = "done" => completions[j] = 1

C22_SelectionInRange ==
    /\ mpc = "main_key" => mainSel \in 0..(Len(MainOptions) - 1)
    /\ mpc = "set_key" => subSel \in 0..(Len(SettingsOptions) - 1)
    /\ mpc \in {"fmt_render", "fmt_key"} =>
           nFormats > 0 /\ subSel \in 0..(nFormats - 1)
\* C22 witness: Down events took the format menu to its last option, where
\* one more Down would leave the list without the modulo.
C22_Witness ==
    /\ mpc = "fmt_key"
    /\ nFormats = MaxFormats
    /\ subSel = nFormats - 1
    /\ subNav = <<0, MaxFormats - 1>>

\* main() entered its MenuScreen and has left it, by return or by an
\* exception.
MainScreenExited == keyboard = "yes" /\ mpc \in {"ended", "crashed"}

ListMatchesFormats ==
    /\ Len(glistbox) = Len(gformats)
    /\ \A i \in 1..Len(glistbox) : Describes(glistbox[i]) = gformats[i]

\* C24: whenever the user can select a row and start a download, the listbox
\* and self.formats agree, also with overlapping fetches; so download_video
\* never indexes self.formats out of range and every download started is of
\* the format its selected row describes.
C24_ListboxMatchesFormats ==
    /\ (gbtn = "normal" /\ glistbox # <<>>) => ListMatchesFormats
    /\ ~gindexError
    /\ \A d \in DlIds :
           gdl[d].pc # "idle" => Describes(gdl[d].row) = gdl[d].fmt

\* C25: the download button is disabled while a download thread runs, so at
\* most one download thread runs at any time.
C25_OneDownloadAtATime ==
    /\ Cardinality({d \in DlIds : gdl[d].pc = "running"}) <= 1
    /\ (\E d \in DlIds : gdl[d].pc = "running") => gbtn = "disabled"

====
